---- MODULE Spec2Model ----
(***************************************************************************)
(* CaptionCheck: the frame playback / frame cache / frame generation core  *)
(* of captioncheck/gui/main_window.py (class MainWindow).                  *)
(*                                                                         *)
(* The window's fields are the variables.  Every slot of the window is an  *)
(* operator from a state record to a state record (the slot and every call *)
(* it makes), and one action of Next applies it.  The decode process, the  *)
(* wall clock and the file system are the environment: the process writes  *)
(* numbered frames into the job's temporary directory and exits, the clock *)
(* supplies the elapsed time of a tick, and a read, a write or a rename    *)
(* that the code guards with try/except may fail.                          *)
(*                                                                         *)
(* Units.  fps is kept in 1/1000 frames per second (10.0 fps = 10000), the *)
(* playback rate in quarters (1.0x = 4) and elapsed time in milliseconds,  *)
(* so the accumulators count 1/AccumUnit frames exactly.                   *)
(***************************************************************************)
EXTENDS Integers, Sequences, FiniteSets, TLC

\* ------------------------------------------------------------------ bounds
MaxFrames == 3          \* frames of the longest clip of the data set
ExtraFrames == 2        \* frames of the long clip beyond the pixmap cache size
MaxProcs == 2           \* decode processes alive at once (tracked + lingering)
MaxFields == 2          \* members of a caption record's JSON object
MapperFrames == 8       \* frame indices given to the frame/time mapper
PlayFrames == 6         \* frames of the clip played with fine ticks

\* ------------------------------------------------------- program constants
PIXMAP_CACHE_SIZE == 128
DefaultFps == 10000     \* 10.0 fps, in 1/1000 fps
InitialSpeedIndex == 2  \* the 1.0x entry of the speed combo
AccumUnit == 4000000    \* ms * (fps/1000) * (rate/4) per frame

Rates4 == <<1, 2, 4, 6, 8, 16, 32>>   \* 0.25x .. 8x, in quarters
Deltas == {100, 200}                  \* elapsed ms between two ticks

\* ------------------------------------------------------------- the data set
None == "None"
NoneInt == -1
\* a QProcess object as the window sees it: the one it tracks, or one it has
\* let go of (killed, its exit not yet delivered)
NoProc == "NoProc"
TrackedProc == "TrackedProc"
LingeringProc == "LingeringProc"
Items == {"A", "B"}
FirstItem == "A"

\* long_caption.json of an item: info.total_frames is recorded for A and
\* absent (0) for B; info.fps is absent for both, so fps is the default
RecordTotalFrames(i) == IF i = "A" THEN MaxFrames - 1 ELSE 0
RecordFps(i) == DefaultFps
\* frames the decoder can extract from the item's video
VideoFrames(i) == MaxFrames
\* os.stat of the item's video
VideoStat(i) == [st_mtime_ns |-> 1, st_size |-> 1]

Min(a, b) == IF a < b THEN a ELSE b
Max(a, b) == IF a > b THEN a ELSE b

\* --------------------------------------------------------------- directories
NoMeta == [present |-> FALSE, fps |-> 0, total_frames |-> 0,
           video_mtime_ns |-> 0, video_size |-> 0]
NoDir == [exists |-> FALSE, frames |-> {}, meta |-> NoMeta]
EmptyDir == [exists |-> TRUE, frames |-> {}, meta |-> NoMeta]

VARIABLES
    current_item, fps, total_frames, current_frame, slider_dragging,
    playing, play_timer, play_frame_accum,
    step_hold_left, step_hold_right, step_timer, step_frame_accum,
    speed_index, frames_dir, pixmap_cache, ffmpeg_path,
    gen_process, gen_tmp_dir, gen_final_dir,
    gen_expected_total_frames, gen_expected_fps,
    controls_enabled, status_text, status_count, status_progress,
    final_dirs, tmp_dirs, cache_root, proc_state, proc_written, lingering, orphans,
    closed, last_op, last_cancel,
    returned,   \* what a function called on its own has returned (NoReturn: nothing)
    review,     \* the caption records on disk, the Reviewed checkbox and the
                \* tree's reviewed indicators
    play_clock  \* since playback started: the frames the elapsed time
                \* justifies (in AccumUnit) and the frames the ticks advanced

NoReturn == "NoReturn"

vars == <<current_item, fps, total_frames, current_frame, slider_dragging,
          playing, play_timer, play_frame_accum,
          step_hold_left, step_hold_right, step_timer, step_frame_accum,
          speed_index, frames_dir, pixmap_cache, ffmpeg_path,
          gen_process, gen_tmp_dir, gen_final_dir,
          gen_expected_total_frames, gen_expected_fps,
          controls_enabled, status_text, status_count, status_progress,
          final_dirs, tmp_dirs, cache_root, proc_state, proc_written, lingering, orphans,
          closed, last_op, last_cancel, returned, review, play_clock>>

\* ------------------------------------------------------- caption records
\* long_caption.json as text: a JSON object (its members in the order of
\* the text, a key possibly repeated), some other JSON value, or no JSON
JsonValues == {"true", "false", "text"}
FieldKeys == {"reviewed", "info", "spans", "extra"}
Members == FieldKeys \X JsonValues
SeqUpTo(set, n) == UNION {[1..k -> set] : k \in 0..n}
ObjectFile(members) == [kind |-> "object", members |-> members]
ArrayFile == [kind |-> "array", members |-> <<>>]
GarbageFile == [kind |-> "garbage", members |-> <<>>]
RecordFiles == {ObjectFile(m) : m \in SeqUpTo(Members, MaxFields)} \cup {ArrayFile, GarbageFile}

\* a dict: a sequence of <<key, value>> with every key once, in insertion order
DictHas(d, k) == \E i \in DOMAIN d : d[i][1] = k
DictGet(d, k, default) ==
    IF DictHas(d, k) THEN d[CHOOSE i \in DOMAIN d : d[i][1] = k][2] ELSE default
\* d[k] = v: a key already there keeps its place
DictSet(d, k, v) ==
    IF DictHas(d, k)
    THEN [i \in DOMAIN d |-> IF d[i][1] = k THEN <<k, v>> ELSE d[i]]
    ELSE Append(d, <<k, v>>)
\* json.loads of an object: a repeated key keeps its last value
RECURSIVE DictOf(_)
DictOf(members) ==
    IF members = <<>> THEN <<>>
    ELSE LET n == Len(members)
         IN DictSet(DictOf(SubSeq(members, 1, n - 1)), members[n][1], members[n][2])
loads(file) == DictOf(file.members)
dumps(d) == ObjectFile(d)
\* whether read_json(path) returns a dict: the text parses and is an object
Readable(file) == file.kind = "object"
\* bool(value)
PyBool(v) == v # "false"
JsonBool(b) == IF b THEN "true" ELSE "false"

\* the temporary file replaces the record only after it is written whole
write_json_atomic(files, item, d, write_ok) ==
    IF write_ok THEN [files EXCEPT ![item] = dumps(d)] ELSE files

\* _populate_tree: the indicator of an item shows its record's reviewed
\* flag, and unchecked when the record cannot be read
populate_tree(files) ==
    [files |-> files,
     checkbox |-> FALSE,
     indicator |-> [i \in Items |->
                       IF Readable(files[i])
                       THEN PyBool(DictGet(loads(files[i]), "reviewed", "false"))
                       ELSE FALSE]]

set_tree_reviewed_state(rv, item, reviewed) ==
    [rv EXCEPT !.indicator[item] = reviewed]

\* the part of _load_item that shows the record's reviewed flag (signals
\* blocked: the slot does not run)
load_item_reviewed(s, rv, item, read_ok) ==
    IF s.current_item # None /\ s.current_item = item THEN rv
    ELSE IF ~read_ok THEN rv
    ELSE LET reviewed == PyBool(DictGet(loads(rv.files[item]), "reviewed", "false"))
         IN set_tree_reviewed_state([rv EXCEPT !.checkbox = reviewed], item, reviewed)

\* mutant: the record is written from the known fields only
on_reviewed_changed_known_fields(s, rv, state, io_ok, write_ok) ==
    IF s.current_item = None THEN rv
    ELSE IF ~(io_ok /\ Readable(rv.files[s.current_item])) THEN rv
    ELSE LET d == loads(rv.files[s.current_item])
             known == SelectSeq(d, LAMBDA m : m[1] \in {"reviewed", "info", "spans"})
             files == write_json_atomic(rv.files, s.current_item,
                                        DictSet(known, "reviewed", JsonBool(state)), write_ok)
         IN IF ~write_ok THEN [rv EXCEPT !.files = files]
            ELSE set_tree_reviewed_state([rv EXCEPT !.files = files], s.current_item, state)

\* state: whether the checkbox is now checked; io_ok: whether the read
\* succeeds; write_ok: whether the write does
on_reviewed_changed(s, rv, state, io_ok, write_ok) ==
    IF s.current_item = None THEN rv
    ELSE IF ~(io_ok /\ rv.files[s.current_item].kind # "garbage") THEN rv
    ELSE IF rv.files[s.current_item].kind # "object" THEN rv
    ELSE LET d == loads(rv.files[s.current_item])
             files == write_json_atomic(rv.files, s.current_item,
                                        DictSet(d, "reviewed", JsonBool(state)), write_ok)
         IN IF ~write_ok THEN [rv EXCEPT !.files = files]
            ELSE set_tree_reviewed_state([rv EXCEPT !.files = files], s.current_item, state)

\* the records of the data set: no reviewed flag yet
DefaultFiles == [i \in Items |-> ObjectFile(<<<<"info", "text">>>>)]
\* __init__: the tree is populated, then the first item is loaded
DefaultReview ==
    load_item_reviewed([current_item |-> None], populate_tree(DefaultFiles), FirstItem, TRUE)

\* playback not running: nothing elapsed, nothing advanced
IdleClock == [justified |-> 0, advanced |-> 0]

\* the window and its environment as one record
S == [current_item |-> current_item, fps |-> fps, total_frames |-> total_frames,
      current_frame |-> current_frame, slider_dragging |-> slider_dragging,
      playing |-> playing, play_timer |-> play_timer,
      play_frame_accum |-> play_frame_accum,
      step_hold_left |-> step_hold_left, step_hold_right |-> step_hold_right,
      step_timer |-> step_timer, step_frame_accum |-> step_frame_accum,
      speed_index |-> speed_index, frames_dir |-> frames_dir,
      pixmap_cache |-> pixmap_cache, ffmpeg_path |-> ffmpeg_path,
      gen_process |-> gen_process, gen_tmp_dir |-> gen_tmp_dir,
      gen_final_dir |-> gen_final_dir,
      gen_expected_total_frames |-> gen_expected_total_frames,
      gen_expected_fps |-> gen_expected_fps,
      controls_enabled |-> controls_enabled, status_text |-> status_text,
      status_count |-> status_count, status_progress |-> status_progress,
      final_dirs |-> final_dirs, tmp_dirs |-> tmp_dirs, cache_root |-> cache_root,
      proc_state |-> proc_state, proc_written |-> proc_written,
      lingering |-> lingering, orphans |-> orphans,
      closed |-> closed, last_cancel |-> "none"]

\* the slot's result becomes the next state of the window (the result is
\* bound once)
CommitWindow(result, op) ==
    \E r \in {result} :
        /\ current_item' = r.current_item
        /\ fps' = r.fps
        /\ total_frames' = r.total_frames
        /\ current_frame' = r.current_frame
        /\ slider_dragging' = r.slider_dragging
        /\ playing' = r.playing
        /\ play_timer' = r.play_timer
        /\ play_frame_accum' = r.play_frame_accum
        /\ step_hold_left' = r.step_hold_left
        /\ step_hold_right' = r.step_hold_right
        /\ step_timer' = r.step_timer
        /\ step_frame_accum' = r.step_frame_accum
        /\ speed_index' = r.speed_index
        /\ frames_dir' = r.frames_dir
        /\ pixmap_cache' = r.pixmap_cache
        /\ ffmpeg_path' = r.ffmpeg_path
        /\ gen_process' = r.gen_process
        /\ gen_tmp_dir' = r.gen_tmp_dir
        /\ gen_final_dir' = r.gen_final_dir
        /\ gen_expected_total_frames' = r.gen_expected_total_frames
        /\ gen_expected_fps' = r.gen_expected_fps
        /\ controls_enabled' = r.controls_enabled
        /\ status_text' = r.status_text
        /\ status_count' = r.status_count
        /\ status_progress' = r.status_progress
        /\ final_dirs' = r.final_dirs
        /\ tmp_dirs' = r.tmp_dirs
        /\ cache_root' = r.cache_root
        /\ proc_state' = r.proc_state
        /\ proc_written' = r.proc_written
        /\ lingering' = r.lingering
        /\ orphans' = r.orphans
        /\ last_cancel' = r.last_cancel
        /\ closed' = r.closed
        /\ last_op' = op

\* a slot that touches neither the caption records nor the reviewed widgets
Commit(result, op) ==
    /\ CommitWindow(result, op)
    /\ UNCHANGED <<returned, review, play_clock>>

\* the window a specification starts with
StartsWindow(result, op) ==
    \E r \in {result} :
        /\ current_item = r.current_item
        /\ fps = r.fps
        /\ total_frames = r.total_frames
        /\ current_frame = r.current_frame
        /\ slider_dragging = r.slider_dragging
        /\ playing = r.playing
        /\ play_timer = r.play_timer
        /\ play_frame_accum = r.play_frame_accum
        /\ step_hold_left = r.step_hold_left
        /\ step_hold_right = r.step_hold_right
        /\ step_timer = r.step_timer
        /\ step_frame_accum = r.step_frame_accum
        /\ speed_index = r.speed_index
        /\ frames_dir = r.frames_dir
        /\ pixmap_cache = r.pixmap_cache
        /\ ffmpeg_path = r.ffmpeg_path
        /\ gen_process = r.gen_process
        /\ gen_tmp_dir = r.gen_tmp_dir
        /\ gen_final_dir = r.gen_final_dir
        /\ gen_expected_total_frames = r.gen_expected_total_frames
        /\ gen_expected_fps = r.gen_expected_fps
        /\ controls_enabled = r.controls_enabled
        /\ status_text = r.status_text
        /\ status_count = r.status_count
        /\ status_progress = r.status_progress
        /\ final_dirs = r.final_dirs
        /\ tmp_dirs = r.tmp_dirs
        /\ cache_root = r.cache_root
        /\ proc_state = r.proc_state
        /\ proc_written = r.proc_written
        /\ lingering = r.lingering
        /\ orphans = r.orphans
        /\ last_cancel = r.last_cancel
        /\ closed = r.closed
        /\ last_op = op

\* the state a specification starts in, the records being the data set's
Starts(result, op) ==
    /\ StartsWindow(result, op)
    /\ returned = NoReturn
    /\ review = DefaultReview
    /\ play_clock = IdleClock

\* a step that leaves the window as it is
WindowUnchanged(op) ==
    /\ last_op' = op
    /\ UNCHANGED <<current_item, fps, total_frames, current_frame,
                   slider_dragging, playing, play_timer, play_frame_accum,
                   step_hold_left, step_hold_right, step_timer, step_frame_accum,
                   speed_index, frames_dir, pixmap_cache, ffmpeg_path,
                   gen_process, gen_tmp_dir, gen_final_dir,
                   gen_expected_total_frames, gen_expected_fps, controls_enabled,
                   status_text, status_count, status_progress, final_dirs,
                   tmp_dirs, cache_root, proc_state, proc_written, lingering,
                   orphans, last_cancel, closed>>

\* a function called on its own: the window is left as it is and the value
\* is kept
Returns(value, op) ==
    /\ returned' = value
    /\ WindowUnchanged(op)
    /\ UNCHANGED <<review, play_clock>>

\* ------------------------------------------------------ frames and playback
frames_ready(s) == s.frames_dir # None /\ s.total_frames > 0

\* the status line: its message, the frame count shown after it (NoneInt when
\* the message carries none) and the value of the progress bar
set_generation_status(s, message, active) ==
    IF active THEN [s EXCEPT !.status_text = message, !.status_count = NoneInt]
    ELSE [s EXCEPT !.status_text = message, !.status_count = NoneInt,
                   !.status_progress = 0]

set_controls_enabled(s, enabled) == [s EXCEPT !.controls_enabled = enabled]

CacheFrames(cache) == {cache[k].frame : k \in 1..Len(cache)}
CacheWithout(cache, frame) == SelectSeq(cache, LAMBDA e : e.frame # frame)
RECURSIVE Evict(_)
Evict(cache) == IF Len(cache) > PIXMAP_CACHE_SIZE THEN Evict(Tail(cache)) ELSE cache

\* mutant: a cache hit shows the pixmap and leaves its place in the cache
display_frame_hit_keeps_place(s, frame) ==
    IF s.frames_dir = None THEN s
    ELSE IF frame \in CacheFrames(s.pixmap_cache)
    THEN s
    ELSE IF ~(s.final_dirs[s.frames_dir].exists
              /\ frame \in s.final_dirs[s.frames_dir].frames)
    THEN s
    ELSE [s EXCEPT !.pixmap_cache =
              Evict(Append(CacheWithout(s.pixmap_cache, frame),
                           [frame |-> frame, src |-> s.frames_dir]))]

\* the pixmap cache is most-recently-used last; an entry keeps the directory
\* its image was decoded from
display_frame(s, frame) ==
    IF s.frames_dir = None THEN s
    ELSE IF frame \in CacheFrames(s.pixmap_cache)
    THEN LET hit == CHOOSE k \in 1..Len(s.pixmap_cache) : s.pixmap_cache[k].frame = frame
         IN [s EXCEPT !.pixmap_cache =
                 Append(CacheWithout(s.pixmap_cache, frame), s.pixmap_cache[hit])]
    ELSE IF ~(s.final_dirs[s.frames_dir].exists
              /\ frame \in s.final_dirs[s.frames_dir].frames)
    THEN s
    ELSE [s EXCEPT !.pixmap_cache =
              Evict(Append(CacheWithout(s.pixmap_cache, frame),
                           [frame |-> frame, src |-> s.frames_dir]))]

set_current_frame(s, frame) ==
    IF ~frames_ready(s) THEN s
    ELSE LET f0 == Max(0, frame)
             f1 == IF s.total_frames # 0 THEN Min(f0, s.total_frames - 1) ELSE f0
         IN IF f1 = s.current_frame THEN s
            ELSE display_frame([s EXCEPT !.current_frame = f1], f1)

\* mutant: starting playback leaves the step timer running
set_playing_keeps_step_timer(s, p) ==
    IF p = s.playing THEN s
    ELSE IF p
    THEN IF ~frames_ready(s) THEN s
         ELSE [s EXCEPT !.playing = TRUE, !.play_frame_accum = 0, !.play_timer = TRUE]
    ELSE [s EXCEPT !.play_timer = FALSE, !.playing = FALSE]

set_playing(s, p) ==
    IF p = s.playing THEN s
    ELSE IF p
    THEN IF ~frames_ready(s) THEN s
         ELSE [s EXCEPT !.step_timer = FALSE, !.playing = TRUE,
                        !.play_frame_accum = 0, !.play_timer = TRUE]
    ELSE [s EXCEPT !.play_timer = FALSE, !.playing = FALSE]

toggle_play(s) == IF ~frames_ready(s) THEN s ELSE set_playing(s, ~s.playing)

\* mutant: a tick that advances throws the remainder away
on_play_tick_drops_remainder(s, delta) ==
    IF ~s.playing \/ ~frames_ready(s) \/ s.fps <= 0 THEN s
    ELSE LET accum == s.play_frame_accum + delta * s.fps * Rates4[s.speed_index + 1]
             advance == accum \div AccumUnit
             target == s.current_frame + advance
         IN IF advance <= 0 THEN [s EXCEPT !.play_frame_accum = accum]
            ELSE LET s1 == [s EXCEPT !.play_frame_accum = 0]
                 IN IF s1.total_frames # 0 /\ target >= s1.total_frames
                    THEN set_playing(set_current_frame(s1, s1.total_frames - 1), FALSE)
                    ELSE set_current_frame(s1, target)

\* mutant: the end of the clip clamps the frame and leaves playback running
on_play_tick_runs_on(s, delta) ==
    IF ~s.playing \/ ~frames_ready(s) \/ s.fps <= 0 THEN s
    ELSE LET accum == s.play_frame_accum + delta * s.fps * Rates4[s.speed_index + 1]
             advance == accum \div AccumUnit
         IN IF advance <= 0 THEN [s EXCEPT !.play_frame_accum = accum]
            ELSE set_current_frame(
                     [s EXCEPT !.play_frame_accum = accum - advance * AccumUnit],
                     s.current_frame + advance)

on_play_tick(s, delta) ==
    IF ~s.playing \/ ~frames_ready(s) \/ s.fps <= 0 THEN s
    ELSE LET accum == s.play_frame_accum + delta * s.fps * Rates4[s.speed_index + 1]
             advance == accum \div AccumUnit
             target == s.current_frame + advance
         IN IF advance <= 0 THEN [s EXCEPT !.play_frame_accum = accum]
            ELSE LET s1 == [s EXCEPT !.play_frame_accum = accum - advance * AccumUnit]
                 IN IF s1.total_frames # 0 /\ target >= s1.total_frames
                    THEN set_playing(set_current_frame(s1, s1.total_frames - 1), FALSE)
                    ELSE set_current_frame(s1, target)

step_speed(s, delta) ==
    [s EXCEPT !.speed_index = Max(0, Min(s.speed_index + delta, Len(Rates4) - 1))]

\* mutant: with both keys held the forward key wins
step_direction_right_wins(s) ==
    IF s.step_hold_right THEN 1
    ELSE IF s.step_hold_left THEN -1
    ELSE 0

step_direction(s) ==
    IF s.step_hold_right /\ ~s.step_hold_left THEN 1
    ELSE IF s.step_hold_left /\ ~s.step_hold_right THEN -1
    ELSE 0

maybe_stop_step_hold(s) ==
    IF step_direction(s) = 0 THEN [s EXCEPT !.step_timer = FALSE] ELSE s

nudge_frame(s, delta) ==
    IF ~frames_ready(s) \/ s.total_frames <= 0 THEN s
    ELSE LET target == Max(0, Min(s.current_frame + delta, s.total_frames - 1))
             s1 == set_current_frame(s, target)
         IN IF target \in {0, s1.total_frames - 1} THEN maybe_stop_step_hold(s1) ELSE s1

\* mutant: the hold starts the timer and leaves the first step to its tick
start_step_hold_no_nudge(s) ==
    IF ~frames_ready(s) \/ s.fps <= 0 \/ s.slider_dragging THEN s
    ELSE IF step_direction(s) = 0 THEN s
    ELSE LET s1 == set_playing(s, FALSE)
         IN [s1 EXCEPT !.step_frame_accum = 0, !.step_timer = TRUE]

start_step_hold(s) ==
    IF ~frames_ready(s) \/ s.fps <= 0 \/ s.slider_dragging THEN s
    ELSE IF step_direction(s) = 0 THEN s
    ELSE LET s1 == set_playing(s, FALSE)
             s2 == [s1 EXCEPT !.step_frame_accum = 0, !.step_timer = TRUE]
         IN nudge_frame(s2, step_direction(s))

on_step_hold_tick(s, delta) ==
    IF ~frames_ready(s) \/ s.fps <= 0 \/ s.slider_dragging
    THEN [s EXCEPT !.step_timer = FALSE]
    ELSE IF step_direction(s) = 0 THEN [s EXCEPT !.step_timer = FALSE]
    ELSE LET accum == s.step_frame_accum + delta * s.fps * 4
             advance == accum \div AccumUnit
         IN IF advance <= 0 THEN [s EXCEPT !.step_frame_accum = accum]
            ELSE nudge_frame([s EXCEPT !.step_frame_accum = accum - advance * AccumUnit],
                             step_direction(s) * advance)

on_slider_pressed(s) ==
    [set_playing([s EXCEPT !.slider_dragging = TRUE], FALSE) EXCEPT !.step_timer = FALSE]

on_slider_released(s, value) ==
    LET s1 == [s EXCEPT !.slider_dragging = FALSE]
    IN IF ~frames_ready(s1) THEN s1 ELSE set_current_frame(s1, value)

on_slider_moved(s, frame) ==
    IF ~frames_ready(s) THEN s ELSE set_current_frame(s, frame)

\* ------------------------------------------------------------ the frame cache
FpsTolerance == 1       \* 1e-3 fps, in 1/1000 fps

Abs(x) == IF x < 0 THEN -x ELSE x

rmtree(dirs, d) == [dirs EXCEPT ![d] = NoDir]

\* mutant: the size of the video is not compared
frames_cache_valid_ignores_size(s, item) ==
    LET d == s.final_dirs[item]
        meta == d.meta
        stat == VideoStat(item)
    IN /\ d.exists
       /\ meta.present
       /\ meta.video_mtime_ns = stat.st_mtime_ns
       /\ meta.fps > 0
       /\ meta.total_frames > 0
       /\ ~(s.fps # 0 /\ Abs(meta.fps - s.fps) > FpsTolerance)
       /\ ~(s.total_frames # 0 /\ meta.total_frames # s.total_frames)
       /\ 0 \in d.frames
       /\ (meta.total_frames - 1) \in d.frames

frames_cache_valid(s, item) ==
    LET d == s.final_dirs[item]
        meta == d.meta
        stat == VideoStat(item)
    IN /\ d.exists
       /\ meta.present
       /\ meta.video_mtime_ns = stat.st_mtime_ns
       /\ meta.video_size = stat.st_size
       /\ meta.fps > 0
       /\ meta.total_frames > 0
       /\ ~(s.fps # 0 /\ Abs(meta.fps - s.fps) > FpsTolerance)
       /\ ~(s.total_frames # 0 /\ meta.total_frames # s.total_frames)
       /\ 0 \in d.frames
       /\ (meta.total_frames - 1) \in d.frames

\* --------------------------------------------------------- the generation job
Truthy(n) == n # NoneInt /\ n # 0

gen_cleared(s) ==
    [s EXCEPT !.gen_process = NoProc, !.gen_tmp_dir = None, !.gen_final_dir = None,
              !.gen_expected_total_frames = NoneInt, !.gen_expected_fps = NoneInt]

update_generation_progress(s, frame) ==
    IF Truthy(s.gen_expected_total_frames)
    THEN [s EXCEPT !.status_progress = Min(frame, s.gen_expected_total_frames),
                   !.status_text = "Generating frames", !.status_count = frame]
    ELSE [s EXCEPT !.status_text = "Generating frames", !.status_count = frame]

\* mutant: a progress line is taken from whichever process sent it
on_ffmpeg_stdout_any_sender(s, sender, frame) ==
    update_generation_progress(s, frame)

on_ffmpeg_stdout(s, sender, frame) ==
    IF sender # s.gen_process THEN s
    ELSE update_generation_progress(s, frame)

\* mutant: the temporary directory is left where it is
discard_tmp_keeps(s, tmp_dir) == s

\* shutil.rmtree(tmp_dir, ignore_errors=True)
discard_tmp(s, tmp_dir) == [s EXCEPT !.tmp_dirs = rmtree(s.tmp_dirs, tmp_dir)]

\* mutant: a clean exit is taken as complete output
output_complete_unchecked(produced, expected_total) == TRUE

\* mutant: a short output passes when it holds at least one frame
output_complete_any_frame(produced, expected_total) ==
    Cardinality(produced.frames) > 0

\* the completeness check of a clean exit: the last expected numbered file
\* when the frame count is known, at least one file when it is not
output_complete(produced, expected_total) ==
    IF Truthy(expected_total) THEN (expected_total - 1) \in produced.frames
    ELSE Cardinality(produced.frames) > 0

\* mutant: the directory is renamed without its meta.json
promote_without_fingerprint(s, tmp_dir, final_dir, meta) ==
    [s EXCEPT !.final_dirs[final_dir] = s.tmp_dirs[tmp_dir],
              !.tmp_dirs[tmp_dir] = NoDir]

\* meta.json is written into the temporary directory, which is then renamed
\* to the final path
promote(s, tmp_dir, final_dir, meta) ==
    [s EXCEPT !.final_dirs[final_dir] = [s.tmp_dirs[tmp_dir] EXCEPT !.meta = meta],
              !.tmp_dirs[tmp_dir] = NoDir]

\* mutant: a failed write of meta.json or a failed rename goes unnoticed
on_ffmpeg_finished_swallows_write_failure(s, sender, ok, f) ==
    IF sender # s.gen_process THEN s
    ELSE
    LET tmp_dir == s.gen_tmp_dir
        final_dir == s.gen_final_dir
        expected_total == s.gen_expected_total_frames
        expected_fps == s.gen_expected_fps
        s0 == gen_cleared(s)
    IN
    IF ~ok
    THEN set_generation_status(
             IF tmp_dir # None /\ s0.tmp_dirs[tmp_dir].exists
             THEN discard_tmp(s0, tmp_dir) ELSE s0,
             "Frame generation failed.", FALSE)
    ELSE IF tmp_dir = None \/ final_dir = None
    THEN set_generation_status(s0, "Frame generation finished (missing dirs).", FALSE)
    ELSE
    LET produced == s0.tmp_dirs[tmp_dir]
        total == IF Truthy(expected_total) THEN expected_total
                 ELSE Cardinality(produced.frames)
    IN
    IF ~output_complete(produced, expected_total)
    THEN set_generation_status(discard_tmp(s0, tmp_dir),
             IF Truthy(expected_total)
             THEN "Frame generation incomplete; regenerating needed."
             ELSE "No frames generated.", FALSE)
    ELSE display_frame(
             [set_generation_status(set_controls_enabled(
                  [(IF f.meta_ok /\ f.rename_ok
                    THEN promote(s0, tmp_dir, final_dir,
                                 [present |-> TRUE,
                                  fps |-> IF Truthy(expected_fps) THEN expected_fps ELSE s0.fps,
                                  total_frames |-> total,
                                  video_mtime_ns |-> VideoStat(s0.current_item).st_mtime_ns,
                                  video_size |-> VideoStat(s0.current_item).st_size])
                    ELSE s0)
                   EXCEPT !.frames_dir = final_dir, !.total_frames = total],
                  TRUE), "Frames ready.", FALSE)
              EXCEPT !.current_frame = 0],
             0)

\* ok: the process ended with NormalExit and exit code 0.
\* f: whether the write of meta.json and the rename of the directory succeed.
on_ffmpeg_finished(s, sender, ok, f) ==
    IF sender # s.gen_process THEN s
    ELSE
    LET tmp_dir == s.gen_tmp_dir
        final_dir == s.gen_final_dir
        expected_total == s.gen_expected_total_frames
        expected_fps == s.gen_expected_fps
        s0 == gen_cleared(s)
    IN
    IF ~ok
    THEN set_generation_status(
             IF tmp_dir # None /\ s0.tmp_dirs[tmp_dir].exists
             THEN discard_tmp(s0, tmp_dir) ELSE s0,
             "Frame generation failed.", FALSE)
    ELSE IF tmp_dir = None \/ final_dir = None
    THEN set_generation_status(s0, "Frame generation finished (missing dirs).", FALSE)
    ELSE
    LET produced == s0.tmp_dirs[tmp_dir]
        total == IF Truthy(expected_total) THEN expected_total
                 ELSE Cardinality(produced.frames)
        meta == [present |-> TRUE,
                 fps |-> IF Truthy(expected_fps) THEN expected_fps ELSE s0.fps,
                 total_frames |-> total,
                 video_mtime_ns |-> VideoStat(s0.current_item).st_mtime_ns,
                 video_size |-> VideoStat(s0.current_item).st_size]
    IN
    IF ~output_complete(produced, expected_total)
    THEN set_generation_status(discard_tmp(s0, tmp_dir),
             IF Truthy(expected_total)
             THEN "Frame generation incomplete; regenerating needed."
             ELSE "No frames generated.", FALSE)
    ELSE IF ~f.meta_ok
    THEN set_generation_status(discard_tmp(s0, tmp_dir),
             "Failed to write meta.json.", FALSE)
    ELSE IF ~f.rename_ok
    THEN set_generation_status(
             discard_tmp([s0 EXCEPT !.final_dirs = rmtree(s0.final_dirs, final_dir)],
                         tmp_dir),
             "Failed to finalize frame cache.", FALSE)
    ELSE display_frame(
             [set_generation_status(set_controls_enabled(
                  [promote(s0, tmp_dir, final_dir, meta)
                   EXCEPT !.frames_dir = final_dir, !.total_frames = total],
                  TRUE), "Frames ready.", FALSE)
              EXCEPT !.current_frame = 0],
             0)

\* mutant: the job is forgotten, its process neither killed nor waited for
cancel_frame_generation_no_kill(s, w, f) ==
    IF s.gen_process = NoProc
    THEN [s EXCEPT !.last_cancel = IF @ = "none" THEN "idle" ELSE @]
    ELSE
    LET tmp_dir == s.gen_tmp_dir
        s1 == gen_cleared(s)
        s2 == IF tmp_dir # None /\ s1.tmp_dirs[tmp_dir].exists
              THEN discard_tmp(s1, tmp_dir) ELSE s1
    IN [set_generation_status(s2, "", FALSE) EXCEPT !.last_cancel = "killed"]

\* mutant: the temporary directory is left to the exit slot, which does not
\* run when the wait times out
cancel_frame_generation_trusts_exit_slot(s, w, f) ==
    IF s.gen_process = NoProc
    THEN [s EXCEPT !.last_cancel = IF @ = "none" THEN "idle" ELSE @]
    ELSE
    LET proc == s.gen_process
        was == s.proc_state
        delivered == was # "running" \/ w = "finished"
        waited == IF delivered
                  THEN on_ffmpeg_finished([s EXCEPT !.proc_state = "none"],
                                          proc, was = "exited_ok", f)
                  ELSE [s EXCEPT !.proc_state = "none", !.lingering = @ + 1]
    IN [set_generation_status(gen_cleared(waited), "", FALSE)
        EXCEPT !.last_cancel = IF was # "running" THEN was
                               ELSE IF delivered THEN "killed" ELSE "timeout"]

\* proc.kill(); proc.waitForFinished(1000): a running process is killed and
\* either ends within the wait (w = "finished") or outlives it (w = "timeout")
\* and lingers.  waitForFinished emits finished() before it returns, so the
\* exit slot runs inside the wait; a process that had already ended, its exit
\* not yet delivered, delivers its own exit code there.
\* last_cancel records what the first cancellation of a slot met.
cancel_frame_generation(s, w, f) ==
    IF s.gen_process = NoProc
    THEN [s EXCEPT !.last_cancel = IF @ = "none" THEN "idle" ELSE @]
    ELSE
    LET proc == s.gen_process
        tmp_dir == s.gen_tmp_dir
        was == s.proc_state
        delivered == was # "running" \/ w = "finished"
        waited == IF delivered
                  THEN on_ffmpeg_finished([s EXCEPT !.proc_state = "none"],
                                          proc, was = "exited_ok", f)
                  ELSE [s EXCEPT !.proc_state = "none", !.lingering = @ + 1]
        s1 == gen_cleared(waited)
        s2 == IF tmp_dir # None /\ s1.tmp_dirs[tmp_dir].exists
              THEN discard_tmp(s1, tmp_dir) ELSE s1
    IN [set_generation_status(s2, "", FALSE)
        EXCEPT !.last_cancel = IF was # "running" THEN was
                               ELSE IF delivered THEN "killed" ELSE "timeout"]

\* proc.start() and self._gen_process = proc: a process still tracked at that
\* point would go on running with nothing tracking it (orphans)
start_frame_generation(s, item, fps_, total, w, f) ==
    LET s1 == [set_playing(cancel_frame_generation(s, w, f), FALSE)
               EXCEPT !.step_timer = FALSE]
        s2 == [s1 EXCEPT !.tmp_dirs[item] = EmptyDir,
                         !.cache_root = TRUE,
                         !.orphans = IF s1.proc_state = "none" THEN @ ELSE @ + 1,
                         !.proc_state = "running",
                         !.proc_written = 0,
                         !.gen_process = TrackedProc,
                         !.gen_tmp_dir = item,
                         !.gen_final_dir = item,
                         !.gen_expected_total_frames =
                             IF total > 0 THEN total ELSE NoneInt,
                         !.gen_expected_fps = IF fps_ > 0 THEN fps_ ELSE NoneInt,
                         !.pixmap_cache = <<>>,
                         !.frames_dir = None]
        s3 == set_controls_enabled(s2, FALSE)
        s4 == IF total > 0 THEN [s3 EXCEPT !.status_progress = 0] ELSE s3
    IN set_generation_status(s4, "Generating frames", TRUE)

\* mutant: a missing decoder is not looked for
ensure_frames_for_current_item_any_decoder(s, w, f) ==
    IF s.current_item = None THEN s
    ELSE
    LET item == s.current_item
        s1 == IF s.tmp_dirs[item].exists
              THEN [s EXCEPT !.tmp_dirs = rmtree(s.tmp_dirs, item)] ELSE s
    IN IF frames_cache_valid(s1, item)
       THEN display_frame(
                set_generation_status(
                    set_controls_enabled([s1 EXCEPT !.frames_dir = item], TRUE),
                    "Frames ready (cached).", FALSE),
                0)
       ELSE start_frame_generation(
                IF s1.final_dirs[item].exists
                THEN [s1 EXCEPT !.final_dirs = rmtree(s1.final_dirs, item)] ELSE s1,
                item, s1.fps, s1.total_frames, w, f)

ensure_frames_for_current_item(s, w, f) ==
    IF s.current_item = None THEN s
    ELSE IF s.ffmpeg_path = None
    THEN set_controls_enabled(
             set_generation_status(s, "ffmpeg not found; cannot generate frames.", FALSE),
             FALSE)
    ELSE
    LET item == s.current_item
        s1 == IF s.tmp_dirs[item].exists
              THEN [s EXCEPT !.tmp_dirs = rmtree(s.tmp_dirs, item)] ELSE s
    IN IF frames_cache_valid(s1, item)
       THEN display_frame(
                set_generation_status(
                    set_controls_enabled([s1 EXCEPT !.frames_dir = item], TRUE),
                    "Frames ready (cached).", FALSE),
                0)
       ELSE start_frame_generation(
                IF s1.final_dirs[item].exists
                THEN [s1 EXCEPT !.final_dirs = rmtree(s1.final_dirs, item)] ELSE s1,
                item, s1.fps, s1.total_frames, w, f)

\* cache_root.exists(): the root is made with the first temporary directory
\* (mkdir parents=True) and goes with a successful clear
cache_root_exists(s) == s.cache_root

\* mutant: the directories under the cache root are left on disk
clear_frame_cache_keeps_root(s, rm_ok, w, f) ==
    LET s1 == set_playing(cancel_frame_generation(s, w, f), FALSE)
    IN IF cache_root_exists(s1) /\ ~rm_ok THEN s1
       ELSE LET s2 == [s1 EXCEPT !.pixmap_cache = <<>>, !.frames_dir = None]
                s3 == set_generation_status(s2, "Frame cache cleared.", FALSE)
            IN IF s3.current_item # None
               THEN ensure_frames_for_current_item(s3, w, f) ELSE s3

\* mutant: the clear ends without looking at the current item's frames
clear_frame_cache_no_restart(s, rm_ok, w, f) ==
    LET s1 == set_playing(cancel_frame_generation(s, w, f), FALSE)
    IN IF cache_root_exists(s1) /\ ~rm_ok THEN s1
       ELSE LET s2 == [s1 EXCEPT !.final_dirs = [i \in Items |-> NoDir],
                                 !.tmp_dirs = [i \in Items |-> NoDir],
                                 !.cache_root = FALSE,
                                 !.pixmap_cache = <<>>,
                                 !.frames_dir = None]
            IN set_generation_status(s2, "Frame cache cleared.", FALSE)

\* rm_ok: whether shutil.rmtree(cache_root) succeeds; when it raises the
\* slot reports the error and returns
clear_frame_cache(s, rm_ok, w, f) ==
    LET s1 == set_playing(cancel_frame_generation(s, w, f), FALSE)
    IN IF cache_root_exists(s1) /\ ~rm_ok THEN s1
       ELSE LET s2 == [s1 EXCEPT !.final_dirs = [i \in Items |-> NoDir],
                                 !.tmp_dirs = [i \in Items |-> NoDir],
                                 !.cache_root = FALSE,
                                 !.pixmap_cache = <<>>,
                                 !.frames_dir = None]
                s3 == set_generation_status(s2, "Frame cache cleared.", FALSE)
            IN IF s3.current_item # None
               THEN ensure_frames_for_current_item(s3, w, f) ELSE s3

\* mutant: the switch leaves playback running
load_item_keeps_playing(s, item, read_ok, w, f) ==
    IF s.current_item # None /\ s.current_item = item THEN s
    ELSE
    LET s1 == [s EXCEPT !.step_timer = FALSE,
                   !.step_hold_left = FALSE, !.step_hold_right = FALSE]
        s2 == cancel_frame_generation(s1, w, f)
        s3 == [s2 EXCEPT !.current_item = item, !.pixmap_cache = <<>>,
                         !.frames_dir = None, !.current_frame = 0]
    IN IF ~read_ok THEN s3
       ELSE ensure_frames_for_current_item(
                [s3 EXCEPT !.fps = RecordFps(item),
                           !.total_frames = RecordTotalFrames(item)],
                w, f)

\* mutant: the switch keeps the frame index of the previous item
load_item_keeps_frame(s, item, read_ok, w, f) ==
    IF s.current_item # None /\ s.current_item = item THEN s
    ELSE
    LET s1 == [set_playing(s, FALSE) EXCEPT !.step_timer = FALSE,
                   !.step_hold_left = FALSE, !.step_hold_right = FALSE]
        s2 == cancel_frame_generation(s1, w, f)
        s3 == [s2 EXCEPT !.current_item = item, !.pixmap_cache = <<>>,
                         !.frames_dir = None]
    IN IF ~read_ok THEN s3
       ELSE ensure_frames_for_current_item(
                [s3 EXCEPT !.fps = RecordFps(item),
                           !.total_frames = RecordTotalFrames(item)],
                w, f)

\* mutant: the switch keeps the pixmaps decoded for the previous item
load_item_keeps_pixmaps(s, item, read_ok, w, f) ==
    IF s.current_item # None /\ s.current_item = item THEN s
    ELSE
    LET s1 == [set_playing(s, FALSE) EXCEPT !.step_timer = FALSE,
                   !.step_hold_left = FALSE, !.step_hold_right = FALSE]
        s2 == cancel_frame_generation(s1, w, f)
        s3 == [s2 EXCEPT !.current_item = item,
                         !.frames_dir = None, !.current_frame = 0]
    IN IF ~read_ok THEN s3
       ELSE ensure_frames_for_current_item(
                [s3 EXCEPT !.fps = RecordFps(item),
                           !.total_frames = RecordTotalFrames(item)],
                w, f)

\* read_ok: whether read_json(long_caption_path) succeeds; when it raises
\* the slot ends there
load_item(s, item, read_ok, w, f) ==
    IF s.current_item # None /\ s.current_item = item THEN s
    ELSE
    LET s1 == [set_playing(s, FALSE) EXCEPT !.step_timer = FALSE,
                   !.step_hold_left = FALSE, !.step_hold_right = FALSE]
        s2 == cancel_frame_generation(s1, w, f)
        s3 == [s2 EXCEPT !.current_item = item, !.pixmap_cache = <<>>,
                         !.frames_dir = None, !.current_frame = 0]
    IN IF ~read_ok THEN s3
       ELSE ensure_frames_for_current_item(
                [s3 EXCEPT !.fps = RecordFps(item),
                           !.total_frames = RecordTotalFrames(item)],
                w, f)

\* mutant: the window closes with the job still tracked
closeEvent_keeps_job(s, w, f) ==
    [set_playing(s, FALSE) EXCEPT !.step_timer = FALSE, !.closed = TRUE]

closeEvent(s, w, f) ==
    [set_playing(cancel_frame_generation(s, w, f), FALSE)
     EXCEPT !.step_timer = FALSE, !.closed = TRUE]

eventFilter(s, type, key, auto) ==
    IF auto THEN s
    ELSE IF type = "KeyPress"
    THEN CASE key = "Space" -> toggle_play(s)
           [] key = "Up" -> step_speed(s, 1)
           [] key = "Down" -> step_speed(s, -1)
           [] key = "Left" -> start_step_hold([s EXCEPT !.step_hold_left = TRUE])
           [] key = "Right" -> start_step_hold([s EXCEPT !.step_hold_right = TRUE])
    ELSE CASE key = "Left" -> maybe_stop_step_hold([s EXCEPT !.step_hold_left = FALSE])
           [] key = "Right" -> maybe_stop_step_hold([s EXCEPT !.step_hold_right = FALSE])
           [] OTHER -> s

\* ------------------------------------------------------------- construction
Blank(ffmpeg, finals, tmps) ==
    [current_item |-> None, fps |-> DefaultFps, total_frames |-> 0,
     current_frame |-> 0, slider_dragging |-> FALSE,
     playing |-> FALSE, play_timer |-> FALSE, play_frame_accum |-> 0,
     step_hold_left |-> FALSE, step_hold_right |-> FALSE,
     step_timer |-> FALSE, step_frame_accum |-> 0,
     speed_index |-> InitialSpeedIndex, frames_dir |-> None,
     pixmap_cache |-> <<>>, ffmpeg_path |-> ffmpeg,
     gen_process |-> NoProc, gen_tmp_dir |-> None, gen_final_dir |-> None,
     gen_expected_total_frames |-> NoneInt, gen_expected_fps |-> NoneInt,
     controls_enabled |-> TRUE, status_text |-> "", status_count |-> NoneInt,
     status_progress |-> 0,
     final_dirs |-> finals, tmp_dirs |-> tmps,
     cache_root |-> \E i \in Items : finals[i].exists \/ tmps[i].exists,
     proc_state |-> "none", proc_written |-> 0, lingering |-> 0, orphans |-> 0,
     closed |-> FALSE, last_cancel |-> "none"]

\* what an earlier session can have left under the cache root: a promoted
\* directory (of the video as it is now, or as it was before it was replaced)
\* and the temporary directory of a job that was cut short
CachedFrames(i) ==
    IF RecordTotalFrames(i) > 0 THEN RecordTotalFrames(i) ELSE VideoFrames(i)
CachedDir(i, mtime) ==
    [exists |-> TRUE, frames |-> 0..(CachedFrames(i) - 1),
     meta |-> [present |-> TRUE, fps |-> RecordFps(i), total_frames |-> CachedFrames(i),
               video_mtime_ns |-> mtime, video_size |-> VideoStat(i).st_size]]
LeftoverDir == [exists |-> TRUE, frames |-> {MaxFrames - 1}, meta |-> NoMeta]

InitialFinals ==
    {[i \in Items |-> IF i = FirstItem THEN a ELSE b] :
        a \in {NoDir, CachedDir(FirstItem, VideoStat(FirstItem).st_mtime_ns),
               CachedDir(FirstItem, 0)},
        b \in {NoDir}}
InitialTmps ==
    {[i \in Items |-> IF i = FirstItem THEN a ELSE NoDir] : a \in {NoDir, LeftoverDir}}

NoFault == [meta_ok |-> TRUE, rename_ok |-> TRUE]
\* the inputs a slot can meet in the current state: how the bounded wait of a
\* cancellation ends (read only when a running process is tracked) and which
\* file operations of a promotion fail (read only when a cleanly ended
\* process is tracked)
Waits ==
    IF gen_process # NoProc /\ proc_state = "running"
    THEN {"finished", "timeout"} ELSE {"finished"}
Faults ==
    IF gen_process # NoProc /\ proc_state = "exited_ok"
    THEN [meta_ok : BOOLEAN, rename_ok : BOOLEAN] ELSE {NoFault}
Keys == {"Space", "Left", "Right"}

\* processes alive: a slot that starts a job needs room for one more
LiveProcs == lingering + (IF proc_state = "none" THEN 0 ELSE 1)

\* __init__ ends by selecting the first item of the tree, which loads it
Init ==
    \E ffmpeg \in {"ffmpeg", None}, finals \in InitialFinals, tmps \in InitialTmps :
        \E r \in {load_item(Blank(ffmpeg, finals, tmps), FirstItem, TRUE,
                             "finished", NoFault)} :
           /\ current_item = r.current_item
           /\ fps = r.fps
           /\ total_frames = r.total_frames
           /\ current_frame = r.current_frame
           /\ slider_dragging = r.slider_dragging
           /\ playing = r.playing
           /\ play_timer = r.play_timer
           /\ play_frame_accum = r.play_frame_accum
           /\ step_hold_left = r.step_hold_left
           /\ step_hold_right = r.step_hold_right
           /\ step_timer = r.step_timer
           /\ step_frame_accum = r.step_frame_accum
           /\ speed_index = r.speed_index
           /\ frames_dir = r.frames_dir
           /\ pixmap_cache = r.pixmap_cache
           /\ ffmpeg_path = r.ffmpeg_path
           /\ gen_process = r.gen_process
           /\ gen_tmp_dir = r.gen_tmp_dir
           /\ gen_final_dir = r.gen_final_dir
           /\ gen_expected_total_frames = r.gen_expected_total_frames
           /\ gen_expected_fps = r.gen_expected_fps
           /\ controls_enabled = r.controls_enabled
           /\ status_text = r.status_text
           /\ status_count = r.status_count
           /\ status_progress = r.status_progress
           /\ final_dirs = r.final_dirs
           /\ tmp_dirs = r.tmp_dirs
           /\ cache_root = r.cache_root
           /\ proc_state = r.proc_state
           /\ proc_written = r.proc_written
           /\ lingering = r.lingering
           /\ orphans = r.orphans
           /\ last_cancel = r.last_cancel
           /\ closed = r.closed
           /\ last_op = "init"
           /\ returned = NoReturn
           /\ review = DefaultReview
           /\ play_clock = IdleClock

\* ------------------------------------------------------------------ actions
\* itemSelectionChanged: the user selects another item of the tree
TreeSelectionChangedWindow ==
    /\ ~closed
    /\ LiveProcs < MaxProcs
    /\ \E item \in Items \ {current_item}, io_ok \in BOOLEAN, w \in Waits, f \in Faults :
          LET read_ok == io_ok /\ Readable(review.files[item])
          IN /\ CommitWindow(load_item(S, item, read_ok, w, f),
                             IF read_ok THEN "load_item" ELSE "load_item_failed")
             /\ review' = load_item_reviewed(S, review, item, read_ok)

\* the selection, nothing noted beside it
TreeSelectionChanged ==
    /\ TreeSelectionChangedWindow
    /\ UNCHANGED <<returned, play_clock>>

KeyEvent ==
    /\ ~closed
    /\ \E type \in {"KeyPress", "KeyRelease"},
          key \in Keys, auto \in BOOLEAN :
          Commit(eventFilter(S, type, key, auto), "eventFilter")

SliderPressed ==
    /\ ~closed /\ controls_enabled /\ ~slider_dragging
    /\ Commit(on_slider_pressed(S), "slider_pressed")

SliderRange == 0..Max(0, total_frames - 1)

SliderMoved ==
    /\ ~closed /\ slider_dragging
    /\ \E frame \in SliderRange : Commit(on_slider_moved(S, frame), "slider_moved")

SliderReleased ==
    /\ ~closed /\ slider_dragging
    /\ \E value \in SliderRange : Commit(on_slider_released(S, value), "slider_released")

PlayTick ==
    /\ ~closed /\ play_timer
    /\ \E delta \in Deltas : Commit(on_play_tick(S, delta), "play_tick")

StepTick ==
    /\ ~closed /\ step_timer
    /\ \E delta \in Deltas : Commit(on_step_hold_tick(S, delta), "step_tick")

ClearFramesWindow ==
    /\ ~closed
    /\ LiveProcs < MaxProcs
    /\ \E rm_ok \in BOOLEAN, w \in Waits, f \in Faults :
          CommitWindow(clear_frame_cache(S, rm_ok, w, f),
                 IF rm_ok \/ ~cache_root_exists(S) THEN "clear" ELSE "clear_failed")

\* the clear, nothing noted beside it
ClearFrames ==
    /\ ClearFramesWindow
    /\ UNCHANGED <<returned, review, play_clock>>

Close ==
    /\ ~closed
    /\ \E w \in Waits, f \in Faults : Commit(closeEvent(S, w, f), "close")

\* the decode process writes its next numbered frame into the job's directory
ProcWritesFrameWindow ==
    /\ ~closed
    /\ gen_process # NoProc
    /\ proc_state = "running"
    /\ tmp_dirs[gen_tmp_dir].exists
    /\ LET n == proc_written
           limit == IF Truthy(gen_expected_total_frames)
                    THEN Min(gen_expected_total_frames, VideoFrames(gen_tmp_dir))
                    ELSE VideoFrames(gen_tmp_dir)
       IN /\ n < limit
          /\ CommitWindow([S EXCEPT !.tmp_dirs[gen_tmp_dir].frames = @ \cup {n},
                             !.proc_written = n + 1], "proc_writes")

\* the write, nothing noted beside it
ProcWritesFrame ==
    /\ ProcWritesFrameWindow
    /\ UNCHANGED <<returned, review, play_clock>>

\* the decode process ends, cleanly or not; its exit is delivered later
ProcExitsWindow ==
    /\ ~closed
    /\ gen_process # NoProc
    /\ proc_state = "running"
    /\ \E st \in {"exited_ok", "exited_fail"} :
          CommitWindow([S EXCEPT !.proc_state = st], "proc_exits")

\* the end, nothing noted beside it
ProcExits ==
    /\ ProcExitsWindow
    /\ UNCHANGED <<returned, review, play_clock>>

\* readyReadStandardOutput: a frame=<n> progress line of the tracked process
\* (the number of frames it has written) or of a lingering one
FfmpegStdout ==
    /\ ~closed
    /\ \/ /\ proc_state # "none"
          /\ Commit(on_ffmpeg_stdout(S, TrackedProc,
                        proc_written),
                    "ffmpeg_stdout")
       \/ /\ lingering > 0
          /\ Commit(on_ffmpeg_stdout(S, LingeringProc, 0), "ffmpeg_stdout")

\* finished: the event loop delivers the exit of the tracked process, or of
\* a lingering one (killed: CrashExit)
FfmpegFinishedWindow ==
    /\ ~closed
    /\ \/ /\ proc_state \in {"exited_ok", "exited_fail"}
          /\ \E f \in Faults :
                CommitWindow(on_ffmpeg_finished([S EXCEPT !.proc_state = "none"], TrackedProc,
                                          proc_state = "exited_ok", f),
                       "ffmpeg_finished")
       \/ /\ lingering > 0
          /\ CommitWindow(on_ffmpeg_finished([S EXCEPT !.lingering = @ - 1], LingeringProc,
                                       FALSE, NoFault),
                    "lingering_finished")

\* the exit slot, nothing noted beside it
FfmpegFinished ==
    /\ FfmpegFinishedWindow
    /\ UNCHANGED <<returned, review, play_clock>>

Next ==
    \/ TreeSelectionChanged
    \/ KeyEvent
    \/ SliderPressed
    \/ SliderMoved
    \/ SliderReleased
    \/ PlayTick
    \/ StepTick
    \/ ClearFrames
    \/ Close
    \/ ProcWritesFrame
    \/ ProcExits
    \/ FfmpegStdout
    \/ FfmpegFinished

Spec == Init /\ [][Next]_vars


\* ------------------------------------------- cache validation on its own
\* the directories _frames_cache_valid can be given: any fingerprint (or
\* none) over any set of numbered frames
MetaFps ==
    {0, DefaultFps, DefaultFps + FpsTolerance, DefaultFps + FpsTolerance + 1,
     DefaultFps - FpsTolerance - 1}
FingerprintDirs ==
    {NoDir} \cup
    [exists : {TRUE}, frames : SUBSET (0..(MaxFrames - 1)),
     meta : {NoMeta} \cup
            [present : {TRUE}, fps : MetaFps, total_frames : 0..MaxFrames,
             video_mtime_ns : {0, 1}, video_size : {0, 1}]]

\* _ensure_frames_for_current_item calls _frames_cache_valid with the item
\* _load_item has just read: fps and total_frames are the record's
InitCacheValid ==
    \E item \in Items, d \in FingerprintDirs :
        Starts([Blank("ffmpeg", [i \in Items |-> IF i = item THEN d ELSE NoDir],
                      [i \in Items |-> NoDir])
                EXCEPT !.current_item = item,
                       !.fps = RecordFps(item),
                       !.total_frames = RecordTotalFrames(item)],
               "init")

CacheValidCall ==
    /\ last_op = "init"
    /\ Returns(frames_cache_valid(S, current_item), "frames_cache_valid")

NextCacheValid == CacheValidCall

SpecCacheValid == InitCacheValid /\ [][NextCacheValid]_vars


\* ------------------------------------------- the pixmap cache on a long clip
\* a clip with more frames than the pixmap cache holds, its frames cached on
\* disk: the window as _load_item leaves it, and the slider then pressed
LongClipFrames == PIXMAP_CACHE_SIZE + ExtraFrames
LongClipDir ==
    [exists |-> TRUE, frames |-> 0..(LongClipFrames - 1),
     meta |-> [present |-> TRUE, fps |-> DefaultFps, total_frames |-> LongClipFrames,
               video_mtime_ns |-> VideoStat(FirstItem).st_mtime_ns,
               video_size |-> VideoStat(FirstItem).st_size]]
LongClipLoaded ==
    display_frame(
        set_generation_status(
            [Blank("ffmpeg", [i \in Items |-> IF i = FirstItem THEN LongClipDir ELSE NoDir],
                   [i \in Items |-> NoDir])
             EXCEPT !.current_item = FirstItem, !.fps = DefaultFps,
                    !.total_frames = LongClipFrames, !.frames_dir = FirstItem],
            "Frames ready (cached).", FALSE),
        0)

InitPixmaps == Starts(on_slider_pressed(LongClipLoaded), "slider_pressed")

\* the slider is dragged back to the first frame, or on to the first frame
\* not shown yet
NextUnseen ==
    LET seen == CacheFrames(pixmap_cache) \cup {current_frame}
    IN Min(LongClipFrames - 1, 1 + CHOOSE x \in seen : \A y \in seen : y <= x)
SliderMovedLong ==
    /\ slider_dragging
    /\ \E frame \in {0, NextUnseen} : Commit(on_slider_moved(S, frame), "slider_moved")

NextPixmaps == SliderMovedLong

SpecPixmaps == InitPixmaps /\ [][NextPixmaps]_vars


\* ------------------------------------------------- playback with fine ticks
\* a clip of PlayFrames cached frames, loaded and stopped on its first
\* frame; the timer fires after 15 ms or later, the speed keys change the
\* rate, Space starts and stops
TickDeltas == {15, 40, 100}
PlayClipDir ==
    [exists |-> TRUE, frames |-> 0..(PlayFrames - 1),
     meta |-> [present |-> TRUE, fps |-> DefaultFps, total_frames |-> PlayFrames,
               video_mtime_ns |-> VideoStat(FirstItem).st_mtime_ns,
               video_size |-> VideoStat(FirstItem).st_size]]
PlayClipLoaded ==
    display_frame(
        set_generation_status(
            [Blank("ffmpeg", [i \in Items |-> IF i = FirstItem THEN PlayClipDir ELSE NoDir],
                   [i \in Items |-> NoDir])
             EXCEPT !.current_item = FirstItem, !.fps = DefaultFps,
                    !.total_frames = PlayFrames, !.frames_dir = FirstItem],
            "Frames ready (cached).", FALSE),
        0)

InitPlayback == Starts(PlayClipLoaded, "load_item")

PlayKeys == {"Space", "Up", "Down"}

\* a key press; the clock restarts when playback starts and rests when it
\* is stopped
PlayKeyEvent ==
    \E key \in PlayKeys :
        /\ CommitWindow(eventFilter(S, "KeyPress", key, FALSE), "eventFilter")
        /\ play_clock' = IF playing' /\ playing THEN play_clock ELSE IdleClock
        /\ UNCHANGED <<returned, review>>

\* a tick of the playback timer, delta ms after the previous tick (or after
\* the start): the clock takes delta * fps * rate, as time.monotonic and
\* the speed combo give them, and the frames the tick advanced
PlayTickFine ==
    /\ play_timer
    /\ \E delta \in TickDeltas :
          /\ CommitWindow(on_play_tick(S, delta), "play_tick")
          /\ play_clock' =
                 IF playing'
                 THEN [justified |-> play_clock.justified
                                        + delta * fps * Rates4[speed_index + 1],
                       advanced |-> play_clock.advanced + (current_frame' - current_frame)]
                 ELSE IdleClock
          /\ UNCHANGED <<returned, review>>

NextPlayback ==
    \/ PlayKeyEvent
    \/ PlayTickFine

SpecPlayback == InitPlayback /\ [][NextPlayback]_vars


\* ------------------------------------------ progress lines of any content
\* the decode process may print any frame=<n> line: numbers out of order,
\* repeated, or beyond the frames asked for
ProgressFrames == 0..(MaxFrames + 1)
FfmpegStdoutAny ==
    /\ ~closed
    /\ proc_state # "none"
    /\ \E frame \in ProgressFrames :
          Commit(on_ffmpeg_stdout(S, TrackedProc, frame), "ffmpeg_stdout")

NextProgress ==
    \/ FfmpegStdoutAny
    \/ ProcWritesFrame
    \/ ProcExits
    \/ FfmpegFinished
    \/ TreeSelectionChanged

SpecProgress == Init /\ [][NextProgress]_vars


\* ------------------------------------------------- retry after a failed job
\* the statuses a job ends Failed with: the process crashed or ended with
\* an error, or its output is incomplete
FailedStatuses ==
    {"Frame generation failed.",
     "Frame generation incomplete; regenerating needed.",
     "No frames generated."}

\* returned notes the item whose job has ended Failed, until a job is
\* started for that item again (Retried)
Retried == "Retried"
NotesFailure ==
    returned' = IF last_op' = "ffmpeg_finished" /\ status_text' \in FailedStatuses
                THEN current_item'
                ELSE IF gen_process' # NoProc /\ gen_tmp_dir' = returned
                THEN Retried
                ELSE returned

\* the user selects a sport node and then the current item again
TreeReselected ==
    /\ ~closed
    /\ current_item # None
    /\ \E io_ok \in BOOLEAN, w \in Waits, f \in Faults :
          CommitWindow(load_item(S, current_item,
                                 io_ok /\ Readable(review.files[current_item]), w, f),
                       "reselect")
    /\ UNCHANGED review

NextRetry ==
    \/ TreeSelectionChangedWindow /\ NotesFailure /\ UNCHANGED play_clock
    \/ TreeReselected /\ NotesFailure /\ UNCHANGED play_clock
    \/ ClearFramesWindow /\ NotesFailure /\ UNCHANGED <<review, play_clock>>
    \/ ProcWritesFrameWindow /\ NotesFailure /\ UNCHANGED <<review, play_clock>>
    \/ ProcExitsWindow /\ NotesFailure /\ UNCHANGED <<review, play_clock>>
    \/ FfmpegFinishedWindow /\ NotesFailure /\ UNCHANGED <<review, play_clock>>

SpecRetry == Init /\ [][NextRetry]_vars


\* ------------------------------------------------- the frame/time mapper
\* fps in 1/1000 fps, as everywhere; times in whole milliseconds
MapperFps == {10000, 23976, 24000, 25000, 29970, 30000, 60000}
\* the tolerance added before the floor, in 1/1000000 frame
MapperEpsilon == 1
\* round(): to the nearest integer, a tie to the even one
RoundDiv(n, d) ==
    LET q == n \div d
        r == n % d
    IN IF 2 * r < d THEN q
       ELSE IF 2 * r > d THEN q + 1
       ELSE IF q % 2 = 0 THEN q ELSE q + 1
\* round(frame / fps * 1000); 0 when fps <= 0
frame_to_time_ms(frame, fps_) ==
    IF fps_ <= 0 THEN 0 ELSE RoundDiv(frame * 1000000, fps_)
\* floor(ms * fps / 1000 + epsilon); 0 when fps <= 0
time_ms_to_frame(ms, fps_) ==
    IF fps_ <= 0 THEN 0 ELSE (ms * fps_ + MapperEpsilon) \div 1000000

NoTime == -1
InitMapper ==
    /\ StartsWindow(Blank("ffmpeg", [i \in Items |-> NoDir], [i \in Items |-> NoDir]),
                    "init")
    /\ review = DefaultReview
    /\ play_clock = IdleClock
    /\ \E fps_ \in MapperFps, frame \in 0..(MapperFrames - 1) :
          returned = [fps |-> fps_, frame |-> frame, ms |-> NoTime, back |-> NoTime]

FrameToTime ==
    /\ last_op = "init"
    /\ Returns([returned EXCEPT !.ms = frame_to_time_ms(returned.frame, returned.fps)],
               "frame_to_time_ms")

TimeToFrame ==
    /\ last_op = "frame_to_time_ms"
    /\ Returns([returned EXCEPT !.back = time_ms_to_frame(returned.ms, returned.fps)],
               "time_ms_to_frame")

NextMapper ==
    \/ FrameToTime
    \/ TimeToFrame

SpecMapper == InitMapper /\ [][NextMapper]_vars


\* ------------------------------------------------- the reviewed flag
\* the window on a data set whose first record is any caption record file
\* and whose second is reviewed, with no decoder installed
ReviewedFiles(file) ==
    [i \in Items |-> IF i = FirstItem THEN file
                     ELSE ObjectFile(<<<<"reviewed", "true">>, <<"extra", "text">>>>)]
InitReviewed ==
    \E file \in RecordFiles :
        /\ StartsWindow(load_item(Blank(None, [i \in Items |-> NoDir], [i \in Items |-> NoDir]),
                                  FirstItem, Readable(file), "finished", NoFault),
                        IF Readable(file) THEN "init" ELSE "init_failed")
        /\ review = load_item_reviewed([current_item |-> None],
                                       populate_tree(ReviewedFiles(file)),
                                       FirstItem, Readable(file))
        /\ returned = NoReturn
        /\ play_clock = IdleClock

\* stateChanged: the user clicks the Reviewed checkbox, which toggles it and
\* runs the slot
ReviewedToggled ==
    /\ ~closed
    /\ \E io_ok \in BOOLEAN, write_ok \in BOOLEAN :
          LET clicked == [review EXCEPT !.checkbox = ~@]
              ok == /\ current_item # None
                    /\ io_ok /\ Readable(review.files[current_item])
                    /\ write_ok
          IN /\ review' = on_reviewed_changed(S, clicked, clicked.checkbox, io_ok, write_ok)
             /\ WindowUnchanged(IF ok THEN "reviewed_changed" ELSE "reviewed_failed")
             /\ UNCHANGED <<returned, play_clock>>

NextReviewed ==
    \/ ReviewedToggled
    \/ TreeSelectionChanged

SpecReviewed == InitReviewed /\ [][NextReviewed]_vars


\* ------------------------------------------------------------------- claims

\* C1: in every reachable state at most one of the two frame drivers is
\* active: the playback timer (state Playing) and the step-hold timer are
\* never both running; whichever is started stops the other.
C1_OneFrameDriver == ~((playing \/ play_timer) /\ step_timer)

\* playback was started (Space) while a direction key was held and stepping
C1_Witness ==
    /\ last_op = "eventFilter"
    /\ playing /\ play_timer
    /\ step_direction(S) # 0
    /\ ~step_timer

\* C2: whenever total_frames > 0 the current frame lies in
\* 0 .. total_frames - 1, whatever ticks, keys, slider moves, item switches
\* and generation completions came before.
C2_FrameInRange ==
    total_frames > 0 => (0 <= current_frame /\ current_frame <= total_frames - 1)

\* a step-hold tick has brought the frame to the last index of a clip
C2_Witness ==
    /\ last_op = "step_tick"
    /\ total_frames > 1
    /\ current_frame = total_frames - 1

\* frames the playback tick of this state advances by, for an elapsed time
PlayAdvance(delta) ==
    (play_frame_accum + delta * fps * Rates4[speed_index + 1]) \div AccumUnit

\* C3 (as claimed): after any playback tick that leaves the current frame at
\* total_frames - 1 the playback state is Stopped.
C3_StoppedAtLastFrame ==
    (last_op = "play_tick" /\ total_frames > 0 /\ current_frame = total_frames - 1)
        => ~playing

\* C3 (amended): a playback tick never moves to an earlier frame nor past
\* total_frames - 1; a tick whose advance reaches or exceeds total_frames
\* leaves the frame at total_frames - 1 and playback Stopped; a tick that
\* stays below total_frames (landing on the last frame included) advances by
\* exactly that amount and leaves playback Playing.
C3_EndOfClipStops ==
    [][\A delta \in Deltas :
          (play_timer /\ playing /\ frames_ready(S)
              /\ Commit(on_play_tick(S, delta), "play_tick"))
          => /\ current_frame' >= current_frame
             /\ current_frame' <= total_frames - 1
             /\ (PlayAdvance(delta) > 0
                    /\ current_frame + PlayAdvance(delta) >= total_frames)
                => (~playing' /\ ~play_timer' /\ current_frame' = total_frames - 1)
             /\ (current_frame + PlayAdvance(delta) < total_frames)
                => (playing' /\ current_frame' = current_frame + PlayAdvance(delta))
      ]_vars

\* a playback tick past the end has stopped playback on the last frame
C3_Witness ==
    /\ last_op = "play_tick"
    /\ ~playing
    /\ total_frames > 1
    /\ current_frame = total_frames - 1

\* C4: at most one generation job is active in every reachable state: no
\* launch has overwritten a process that was still tracked, a live decode
\* process is the tracked one, and a temporary directory exists only as the
\* directory of the tracked job; a slot that has just launched a job leaves
\* only that job, freshly started on an empty directory, the one it met
\* having been cancelled (killed, its directory removed) first.
C4_OneJobAtATime ==
    /\ orphans = 0
    /\ (proc_state # "none") <=> (gen_process = TrackedProc)
    /\ ffmpeg_path # None =>
          \A i \in Items : tmp_dirs[i].exists
              => (gen_process = TrackedProc /\ gen_tmp_dir = i)
    /\ (last_op \in {"load_item", "clear"} /\ gen_process = TrackedProc)
          => /\ proc_state = "running"
             /\ proc_written = 0
             /\ tmp_dirs[gen_tmp_dir] = EmptyDir

\* a job was started while another was running: the running one was killed
\* and the new one is the only one tracked
C4_Witness ==
    /\ last_op \in {"load_item", "clear"}
    /\ last_cancel \in {"killed", "timeout"}
    /\ gen_process = TrackedProc
    /\ proc_state = "running"

\* a final directory as promotion leaves it: the fingerprint file and every
\* numbered frame the fingerprint counts
WholeDir(d) ==
    /\ d.meta.present
    /\ d.meta.total_frames >= 1
    /\ d.frames = 0..(d.meta.total_frames - 1)

C6_SuccessContents ==
    [][(last_op' = "ffmpeg_finished" /\ status_text' = "Frames ready.")
       => /\ frames_dir' = gen_final_dir
          /\ final_dirs'[gen_final_dir].exists
          /\ final_dirs'[gen_final_dir].meta.present
          /\ final_dirs'[gen_final_dir].meta.total_frames = total_frames'
          /\ final_dirs'[gen_final_dir].frames = 0..(total_frames' - 1)
          /\ Truthy(gen_expected_total_frames)
                => total_frames' = gen_expected_total_frames
          /\ \A i \in Items : ~tmp_dirs'[i].exists
          /\ gen_process' = NoProc
      ]_vars

\* a job with a known frame count has completed
C6_Witness ==
    /\ last_op = "ffmpeg_finished"
    /\ status_text = "Frames ready."
    /\ total_frames = RecordTotalFrames(current_item)
    /\ total_frames > 1
    /\ final_dirs[current_item].exists

\* C7: while a job is tracked the final directory of its item is absent;
\* when the exit of a process that ended abnormally or with a non-zero code
\* is delivered, the job slot is idle, the job's temporary directory is gone,
\* every final directory is as it was, and frames are not ready.
C7_FailedExitDiscards ==
    /\ [](gen_process # NoProc => ~final_dirs[gen_final_dir].exists)
    /\ [][(proc_state = "exited_fail" /\ last_op' = "ffmpeg_finished")
          => /\ gen_process' = NoProc
             /\ ~tmp_dirs'[gen_tmp_dir].exists
             /\ final_dirs' = final_dirs
             /\ frames_dir' = None
             /\ status_text' = "Frame generation failed."
         ]_vars

\* a failing exit was delivered for a job that had written frames
C7_Witness ==
    /\ last_op = "ffmpeg_finished"
    /\ status_text = "Frame generation failed."
    /\ proc_written > 0
    /\ gen_process = NoProc

\* C8: from every reachable state, cancelling with a job tracked leaves the
\* job slot idle and the job's temporary directory absent, whether the
\* process ends within the wait or not and whatever it had written;
\* cancelling with no job tracked changes nothing.
C8_CancelPostState ==
    \A w \in {"finished", "timeout"}, f \in [meta_ok : BOOLEAN, rename_ok : BOOLEAN] :
        LET r == cancel_frame_generation(S, w, f)
        IN IF gen_process = NoProc
           THEN r = [S EXCEPT !.last_cancel = "idle"]
           ELSE /\ r.gen_process = NoProc
                /\ r.gen_tmp_dir = None
                /\ r.gen_final_dir = None
                /\ r.proc_state = "none"
                /\ ~r.tmp_dirs[gen_tmp_dir].exists

\* the window was closed while a job that had written frames was running and
\* the process outlived the wait
C8_Witness ==
    /\ last_op = "close"
    /\ last_cancel = "timeout"
    /\ proc_written > 0
    /\ lingering > 0
    /\ gen_process = NoProc
    /\ \A i \in Items : ~tmp_dirs[i].exists

\* C9: a step that switches the item or closes the window leaves playback
\* Stopped and both timers stopped; the job tracked before the step is no
\* longer tracked and its temporary directory is gone; a job tracked after
\* the step is one for the newly selected item.
C9_SwitchOrCloseCancels ==
    [][last_op' \in {"load_item", "load_item_failed", "close"}
       => /\ ~playing' /\ ~play_timer' /\ ~step_timer'
          /\ gen_process # NoProc => ~tmp_dirs'[gen_tmp_dir].exists
          /\ gen_process' # NoProc
                => /\ last_op' = "load_item"
                   /\ gen_tmp_dir' = current_item'
                   /\ current_item' # current_item
                   /\ proc_written' = 0
          /\ last_op' # "load_item" => proc_state' = "none"
      ]_vars

\* the item was switched while a job for the previous item was running
C9_Witness ==
    /\ last_op \in {"load_item", "load_item_failed"}
    /\ last_cancel \in {"killed", "timeout"}
    /\ ~playing /\ ~step_timer

\* the post-state of a completed clear: nothing at any final path, the
\* in-memory cache empty, and no temporary directory other than the empty
\* one of the job the clear itself has started
Cleared ==
    /\ \A i \in Items : ~final_dirs[i].exists
    /\ pixmap_cache = <<>>
    /\ frames_dir = None
    /\ \A i \in Items : tmp_dirs[i].exists
          => (gen_process = TrackedProc /\ gen_tmp_dir = i /\ tmp_dirs[i] = EmptyDir)

Fingerprint == final_dirs[current_item].meta

\* C11 (as claimed): validation returns FALSE whenever the fingerprint's
\* mtime, size, fps (beyond the tolerance) or total_frames differs from the
\* video's stat and the record's values, and TRUE on an exact match with the
\* first and last frame files present.
C11_AnyDifferenceInvalidates ==
    last_op = "frames_cache_valid" =>
        /\ (\/ Fingerprint.video_mtime_ns # VideoStat(current_item).st_mtime_ns
            \/ Fingerprint.video_size # VideoStat(current_item).st_size
            \/ Abs(Fingerprint.fps - fps) > FpsTolerance
            \/ Fingerprint.total_frames # total_frames) => returned = FALSE
        /\ (/\ Fingerprint.present
            /\ Fingerprint.video_mtime_ns = VideoStat(current_item).st_mtime_ns
            /\ Fingerprint.video_size = VideoStat(current_item).st_size
            /\ Fingerprint.fps = fps
            /\ Fingerprint.total_frames = total_frames
            /\ 0 \in final_dirs[current_item].frames
            /\ (total_frames - 1) \in final_dirs[current_item].frames)
           => returned = TRUE

\* C11 (amended): validation returns FALSE when the fingerprint is missing,
\* when its mtime or size differs from the video's, when its fps differs from
\* the record's by more than the tolerance, when its total_frames differs
\* from a record that gives a frame count, when its fps or total_frames is
\* not positive, or when the first or last frame file it counts is missing;
\* it returns TRUE otherwise, so also for any positive total_frames when the
\* record gives no frame count.
C11_ValidIffMatches ==
    last_op = "frames_cache_valid" =>
        /\ (\/ ~final_dirs[current_item].exists
            \/ ~Fingerprint.present
            \/ Fingerprint.video_mtime_ns # VideoStat(current_item).st_mtime_ns
            \/ Fingerprint.video_size # VideoStat(current_item).st_size
            \/ Abs(Fingerprint.fps - fps) > FpsTolerance
            \/ (total_frames > 0 /\ Fingerprint.total_frames # total_frames)
            \/ Fingerprint.fps <= 0
            \/ Fingerprint.total_frames <= 0
            \/ 0 \notin final_dirs[current_item].frames
            \/ (Fingerprint.total_frames - 1) \notin final_dirs[current_item].frames)
           => returned = FALSE
        /\ (/\ Fingerprint.present
            /\ Fingerprint.video_mtime_ns = VideoStat(current_item).st_mtime_ns
            /\ Fingerprint.video_size = VideoStat(current_item).st_size
            /\ Abs(Fingerprint.fps - fps) <= FpsTolerance
            /\ Fingerprint.fps > 0
            /\ Fingerprint.total_frames > 0
            /\ (total_frames = 0 \/ Fingerprint.total_frames = total_frames)
            /\ 0 \in final_dirs[current_item].frames
            /\ (Fingerprint.total_frames - 1) \in final_dirs[current_item].frames)
           => returned = TRUE

\* a fingerprint matching the video and a record with a frame count was
\* accepted
C11_Witness ==
    /\ last_op = "frames_cache_valid"
    /\ returned = TRUE
    /\ total_frames > 0
    /\ Fingerprint.total_frames = total_frames

\* C12: the pixmap cache never holds more than PIXMAP_CACHE_SIZE entries, and
\* it is kept in order of last access: every display of a frame leaves that
\* frame last (most recently used) and the others in the order they had; a
\* hit evicts nothing, a miss that exceeds the capacity evicts exactly the
\* first entry, the least recently accessed one.
C12_LruWithinCapacity ==
    /\ [](Len(pixmap_cache) <= PIXMAP_CACHE_SIZE)
    /\ [][(last_op' = "slider_moved" /\ current_frame' # current_frame)
          => LET shown == [frame |-> current_frame', src |-> frames_dir]
                 others == CacheWithout(pixmap_cache, current_frame')
             IN IF current_frame' \in CacheFrames(pixmap_cache)
                THEN pixmap_cache' = Append(others, shown)
                ELSE IF Len(pixmap_cache) < PIXMAP_CACHE_SIZE
                THEN pixmap_cache' = Append(pixmap_cache, shown)
                ELSE pixmap_cache' = Append(Tail(pixmap_cache), shown)
         ]_vars

\* the cache is full, the last frame of the clip has just been inserted, and
\* frame 0, touched again after frame 1 was shown, has survived while frame 1
\* has been evicted
C12_Witness ==
    /\ last_op = "slider_moved"
    /\ Len(pixmap_cache) = PIXMAP_CACHE_SIZE
    /\ current_frame = LongClipFrames - 1
    /\ 0 \in CacheFrames(pixmap_cache)
    /\ 1 \notin CacheFrames(pixmap_cache)

\* C13: a key event or a step-hold tick that leaves both direction keys held
\* leaves the current frame where it was, and with both keys held the step
\* direction is 0.
C13_BothHeldNoMovement ==
    /\ []((step_hold_left /\ step_hold_right) => step_direction(S) = 0)
    /\ [][(last_op' \in {"eventFilter", "step_tick"}
              /\ step_hold_left' /\ step_hold_right')
          => current_frame' = current_frame
         ]_vars

\* a step-hold tick has run with both keys held, on a frame from which either
\* direction could move
C13_Witness ==
    /\ last_op = "step_tick"
    /\ step_hold_left /\ step_hold_right
    /\ frames_ready(S)
    /\ 0 < current_frame /\ current_frame < total_frames - 1

\* C14 (as claimed): a key event that ends with exactly one direction key
\* held, both having been held before it, leaves the step-hold timer running
\* whenever the frame can still move in that direction.
C14_ReleaseResumesStepping ==
    [][(/\ last_op' = "eventFilter"
        /\ step_hold_left /\ step_hold_right
        /\ step_hold_left' # step_hold_right'
        /\ frames_ready(S) /\ fps > 0 /\ ~slider_dragging /\ ~playing
        /\ 0 < current_frame /\ current_frame < total_frames - 1)
       => step_timer'
      ]_vars

\* C15 (as claimed): a key event or a step-hold tick that moves the current
\* frame onto frame 0 or the last frame leaves the step-hold timer stopped.
C15_BoundaryStopsStepping ==
    [][(/\ last_op' \in {"eventFilter", "step_tick"}
        /\ current_frame' # current_frame
        /\ current_frame' \in {0, total_frames' - 1})
       => ~step_timer'
      ]_vars

\* C16: playback is Playing, and its timer running, only while frames are
\* ready; a key event met with frames not ready leaves playback Stopped; an
\* item switch, a start of generation and a cache clear leave playback
\* Stopped.
C16_PlayingOnlyWhenReady ==
    /\ [](playing => frames_ready(S))
    /\ [](play_timer <=> playing)
    /\ [][(~frames_ready(S) /\ last_op' = "eventFilter") => ~playing']_vars
    /\ []((last_op \in {"load_item", "load_item_failed", "clear"}
              \/ gen_process # NoProc) => ~playing)

\* the item was switched while the previous one was playing
C16_Witness ==
    /\ last_op = "load_item_failed"
    /\ ~playing
    /\ ~frames_ready(S)
    /\ total_frames > 0
    /\ last_cancel = "idle"

\* the reviewed flag a record holds (unchecked when it cannot be read)
RecordReviewed(file) ==
    IF Readable(file) THEN PyBool(DictGet(loads(file), "reviewed", "false")) ELSE FALSE
\* the checkbox and the item's tree indicator show what the record holds
ShownAgrees(rv, item) ==
    /\ rv.checkbox = RecordReviewed(rv.files[item])
    /\ rv.indicator[item] = RecordReviewed(rv.files[item])

\* C19 (as claimed): a reviewed toggle whose read or write fails, made while
\* the checkbox and the tree indicator agree with the record, leaves the
\* records and the indicators as they were and leaves the checkbox and the
\* indicator in agreement with the record.
C19_FailedToggleKeepsAgreement ==
    [][(/\ last_op' = "reviewed_failed"
        /\ current_item # None
        /\ ShownAgrees(review, current_item))
       => /\ review'.files = review.files
          /\ review'.indicator = review.indicator
          /\ ShownAgrees(review', current_item)
      ]_vars

\* the members of a record other than reviewed, in order (a record that is
\* no object: the file itself)
OtherFields(file) ==
    IF Readable(file)
    THEN SelectSeq(loads(file), LAMBDA m : m[1] # "reviewed")
    ELSE <<file>>

\* C20: a reviewed toggle leaves every field other than reviewed, of every
\* record, with the value it had, present if it was and absent if it was
\* not; a toggle that succeeds stores the checkbox state as the reviewed
\* field of the current record.
C20_OnlyReviewedChanges ==
    [][(last_op' \in {"reviewed_changed", "reviewed_failed"})
       => /\ \A i \in Items : OtherFields(review'.files[i]) = OtherFields(review.files[i])
          /\ \A i \in Items \ {current_item} : review'.files[i] = review.files[i]
          /\ last_op' = "reviewed_changed"
                => /\ Readable(review'.files[current_item])
                   /\ DictGet(loads(review'.files[current_item]), "reviewed", "absent")
                          = JsonBool(review'.checkbox)
      ]_vars

\* a toggle has been written into a record that holds info and an unknown
\* field
C20_Witness ==
    /\ last_op = "reviewed_changed"
    /\ current_item = FirstItem
    /\ review.files[FirstItem] =
           ObjectFile(<<<<"info", "text">>, <<"extra", "true">>, <<"reviewed", "true">>>>)

\* C17: while playback runs, the frames its ticks have advanced are the
\* whole frames in the sum of elapsed * fps * rate over the ticks since the
\* start (so never more than the elapsed time justifies) and the
\* accumulator holds the rest, below one frame; the accumulator is 0 when
\* playback starts, and a key press during playback leaves it as it is.
C17_AdvanceIsFloorOfElapsed ==
    /\ [](playing => /\ play_clock.advanced = play_clock.justified \div AccumUnit
                     /\ play_frame_accum = play_clock.justified % AccumUnit
                     /\ play_clock.advanced * AccumUnit <= play_clock.justified
                     /\ 0 <= play_frame_accum /\ play_frame_accum < AccumUnit)
    /\ [][(playing' /\ ~playing) => play_frame_accum' = 0]_vars
    /\ [][(last_op' = "eventFilter" /\ playing /\ playing')
          => (play_frame_accum' = play_frame_accum /\ current_frame' = current_frame)]_vars

\* ticks at a changed rate have advanced several frames and left a
\* remainder
C17_Witness ==
    /\ last_op = "play_tick"
    /\ playing
    /\ speed_index # InitialSpeedIndex
    /\ play_clock.advanced >= 3
    /\ play_frame_accum > 0
    /\ current_frame < total_frames - 1

\* C18 (as claimed): a progress line of the running job never lowers the
\* count shown in the status text or the value of the progress bar, and
\* when the job knows its total the count shown never exceeds it.
C18_ProgressMonotoneAndBounded ==
    [][(last_op' = "ffmpeg_stdout" /\ gen_process # NoProc)
       => /\ status_count' >= status_count
          /\ status_progress' >= status_progress
          /\ Truthy(gen_expected_total_frames)
                => status_count' <= gen_expected_total_frames
      ]_vars

C22_FailedReadKeepsOneItem ==
    [][(last_op' = "load_item_failed")
       => \/ /\ current_item' = current_item
             /\ fps' = fps
             /\ total_frames' = total_frames
          \/ /\ fps' = RecordFps(current_item')
             /\ total_frames' = RecordTotalFrames(current_item')
      ]_vars

\* a job for item i has just been started: a process is tracked and running
\* and writes into the item's empty temporary directory
JobStartedFor(i) ==
    /\ gen_process = TrackedProc /\ proc_state = "running"
    /\ gen_tmp_dir = i /\ gen_final_dir = i
    /\ tmp_dirs[i] = EmptyDir
    /\ status_text = "Generating frames"

C24_FrameTimeRoundTrip ==
    last_op = "time_ms_to_frame" => returned.back = returned.frame

\* C25: in every reachable state with frames ready and the slider not
\* dragged, a direction key press that is no autorepeat and makes the
\* direction non-zero leaves playback stopped, the step timer running with
\* its accumulator at 0 and the frame one further in that direction,
\* clamped to the clip; an autorepeat event of a direction key leaves the
\* window as it is.
C25_PressStepsOneFrame ==
    \A key \in {"Left", "Right"} :
        LET held == IF key = "Left" THEN [S EXCEPT !.step_hold_left = TRUE]
                    ELSE [S EXCEPT !.step_hold_right = TRUE]
            dir == (IF held.step_hold_right THEN 1 ELSE 0)
                       - (IF held.step_hold_left THEN 1 ELSE 0)
            after == eventFilter(S, "KeyPress", key, FALSE)
        IN /\ (frames_ready(S) /\ ~slider_dragging /\ dir # 0)
                 => /\ ~after.playing /\ ~after.play_timer
                    /\ after.step_timer
                    /\ after.step_frame_accum = 0
                    /\ after.step_hold_left = held.step_hold_left
                    /\ after.step_hold_right = held.step_hold_right
                    /\ after.current_frame
                           = Max(0, Min(current_frame + dir, total_frames - 1))
           /\ \A type \in {"KeyPress", "KeyRelease"} :
                 eventFilter(S, type, key, TRUE) = S

\* a press of Right during playback has stopped it and moved to an interior
\* frame, the step timer running
C25_Witness ==
    /\ last_op = "eventFilter"
    /\ step_hold_right /\ ~step_hold_left
    /\ step_timer /\ step_frame_accum = 0
    /\ ~playing
    /\ frames_ready(S) /\ ~slider_dragging
    /\ 0 < current_frame /\ current_frame < total_frames - 1

\* what the job's temporary directory must hold for a clean exit to count:
\* the last expected frame when the total is known, any frame when it is not
CompleteOutput(i) ==
    IF gen_expected_total_frames > 0
    THEN (gen_expected_total_frames - 1) \in tmp_dirs[i].frames
    ELSE tmp_dirs[i].frames # {}

\* C26: a clean exit delivered with incomplete output ends the job Failed:
\* the temporary directory is gone, no final directory has changed, frames
\* are not ready and no job is tracked; and a final directory appears or
\* changes only in a step that meets the job's process cleanly ended with
\* complete output.
C26_CleanExitNeedsCompleteOutput ==
    [][\A i \in Items :
          /\ (/\ gen_process = TrackedProc /\ gen_tmp_dir = i
              /\ proc_state = "exited_ok" /\ last_op' = "ffmpeg_finished"
              /\ ~CompleteOutput(i))
                => /\ status_text' \in {"Frame generation incomplete; regenerating needed.",
                                        "No frames generated."}
                   /\ ~tmp_dirs'[i].exists
                   /\ final_dirs' = final_dirs
                   /\ frames_dir' = None /\ ~frames_ready(S)'
                   /\ gen_process' = NoProc
          /\ (final_dirs'[i].exists /\ final_dirs'[i] # final_dirs[i])
                => /\ gen_process = TrackedProc /\ gen_tmp_dir = i
                   /\ proc_state = "exited_ok"
                   /\ CompleteOutput(i)
      ]_vars

\* a process that wrote some frames, but not the last expected one, has
\* ended cleanly and its job has ended Failed
C26_Witness ==
    /\ last_op = "ffmpeg_finished"
    /\ status_text = "Frame generation incomplete; regenerating needed."
    /\ proc_written > 0
    /\ \A i \in Items : ~tmp_dirs[i].exists /\ ~final_dirs[i].exists

WriteFailureStatuses == {"Failed to write meta.json.", "Failed to finalize frame cache."}

\* the window after a failed write: the error in the status line, the job's
\* temporary directory gone, no final directory for the item, frames not ready
EndedFailedOnWrite(r, tmp_dir, final_dir) ==
    /\ r.status_text \in WriteFailureStatuses
    /\ ~r.tmp_dirs[tmp_dir].exists
    /\ ~r.final_dirs[final_dir].exists
    /\ r.frames_dir = None /\ ~frames_ready(r)
    /\ r.gen_process = NoProc

\* C27: when the tracked process has ended cleanly with complete output and
\* the write of meta.json or the rename to the final path fails, the exit
\* slot ends the job Failed: the status line names the failure, the temporary
\* directory is discarded, no final directory is left and frames are not
\* ready.  The same failure met while the exit is delivered inside a
\* cancellation also leaves no temporary directory and frames not ready.
C27_WriteFailureEndsFailed ==
    (gen_process = TrackedProc /\ proc_state = "exited_ok" /\ ~closed
     /\ gen_tmp_dir # None /\ gen_final_dir # None)
        => \A f \in Faults :
              (CompleteOutput(gen_tmp_dir) /\ (~f.meta_ok \/ ~f.rename_ok))
                 => /\ EndedFailedOnWrite(
                           on_ffmpeg_finished([S EXCEPT !.proc_state = "none"],
                                              TrackedProc, TRUE, f),
                           gen_tmp_dir, gen_final_dir)
                    /\ \A w \in Waits :
                          LET r == cancel_frame_generation(S, w, f)
                          IN /\ ~r.tmp_dirs[gen_tmp_dir].exists
                             /\ ~r.final_dirs[gen_final_dir].exists
                             /\ r.frames_dir = None /\ ~frames_ready(r)

\* the rename of a complete temporary directory has failed and the job has
\* ended Failed with nothing left on disk
C27_Witness ==
    /\ last_op = "ffmpeg_finished"
    /\ status_text = "Failed to finalize frame cache."
    /\ frames_dir = None /\ gen_process = NoProc
    /\ \A i \in Items : ~tmp_dirs[i].exists /\ ~final_dirs[i].exists

\* every pixmap held in memory was decoded from the frame directory in use,
\* which is the current item's
CacheIsOfCurrentItem ==
    \A k \in 1..Len(pixmap_cache) :
        pixmap_cache[k].src = frames_dir /\ pixmap_cache[k].src = current_item

\* C28: the pixmap cache is empty whenever no frame directory is set, every
\* pixmap in it was decoded from the current item's frame directory, and a
\* step that changes the current item leaves in it nothing but what that
\* step decoded for the new item (nothing at all when the new item's frames
\* are not ready).
C28_CacheNeverCrossesItems ==
    /\ [](frames_dir = None => pixmap_cache = <<>>)
    /\ []CacheIsOfCurrentItem
    /\ [][current_item' # current_item
            => /\ \A k \in 1..Len(pixmap_cache') :
                     /\ pixmap_cache'[k].src = current_item'
                     /\ pixmap_cache'[k].frame = 0
               /\ frames_dir' = None => pixmap_cache' = <<>>]_vars

\* the user has switched from an item whose frames were generated and shown
\* to item A, whose cached frame 0 is now the only pixmap held
C28_Witness ==
    /\ last_op = "load_item"
    /\ current_item = "A" /\ frames_dir = "A"
    /\ final_dirs["B"].exists /\ final_dirs["B"].meta.present
    /\ pixmap_cache = <<[frame |-> 0, src |-> "A"]>>

\* C29: a step whose cancellation met a tracked job leaves the job's final
\* directory as it was or absent, and does not end with frames ready out of
\* that job's output.
C29_CancelNeverPromotes ==
    [][(gen_process = TrackedProc /\ last_cancel' \notin {"none", "idle"})
          => \A i \in Items :
                gen_final_dir = i
                   => /\ final_dirs'[i] = final_dirs[i] \/ ~final_dirs'[i].exists
                      /\ ~(frames_dir' = i /\ ~final_dirs[i].exists)
      ]_vars

\* C30: while a process the window has let go of is still alive, a progress
\* line from it (whatever frame number it carries) and its exit (whatever its
\* code, whatever the disk would do) leave the window and the directories as
\* they are; the step that delivers its exit changes none of the status
\* line, the job fields, the frame directory, total_frames, the current
\* frame, the pixmaps, the controls and the directories on disk.
C30_StaleCallbacksChangeNothing ==
    /\ [](lingering > 0
            => /\ \A n \in 0..(MaxFrames + ExtraFrames) :
                     on_ffmpeg_stdout(S, LingeringProc, n) = S
               /\ \A ok \in BOOLEAN, f \in Faults :
                     on_ffmpeg_finished(S, LingeringProc, ok, f) = S)
    /\ [][last_op' = "lingering_finished"
            => /\ lingering' = lingering - 1
               /\ UNCHANGED <<status_text, status_count, status_progress,
                              frames_dir, total_frames, fps, current_frame, current_item,
                              pixmap_cache, controls_enabled,
                              gen_process, gen_tmp_dir, gen_final_dir,
                              gen_expected_total_frames, gen_expected_fps,
                              final_dirs, tmp_dirs, cache_root,
                              proc_state, proc_written, orphans,
                              playing, play_timer, step_timer>>]_vars

\* the exit of a process that outlived the kill wait has arrived while the
\* job that replaced it is running and has written frames
C30_Witness ==
    /\ last_op = "lingering_finished"
    /\ gen_process = TrackedProc /\ proc_state = "running"
    /\ proc_written > 0
    /\ status_text = "Generating frames"
    /\ gen_tmp_dir # None /\ tmp_dirs[current_item].exists

\* _frames_cache_valid for item i as a session that has read i's record
\* calls it: _fps and _total_frames are the record's
ValidAsLoaded(i) ==
    frames_cache_valid([S EXCEPT !.fps = RecordFps(i),
                                 !.total_frames = RecordTotalFrames(i)], i)

\* C31: when the exit slot ends a job with success for the current item i,
\* the promoted final directory is the frame directory in use and validates
\* for i as a later selection of i, which reads i's record, validates it.
C31_SuccessThenValid ==
    [][\A i \in Items :
          (last_op' = "ffmpeg_finished" /\ status_text' = "Frames ready."
           /\ current_item' = i)
             => /\ frames_dir' = i /\ final_dirs'[i].exists
                /\ ValidAsLoaded(i)'
      ]_vars

====
